---- MODULE Spec2Model ----
(***************************************************************************)
(* Comic-book encyclopedia: the ingestion pipeline (parsers.py,            *)
(* import_comics.py, repositories.py) and the query engine (services.py).  *)
(*                                                                         *)
(* A text is a sequence of one-character strings, so that strip, split,    *)
(* replace and the substring tests of the code are computed, not assumed.  *)
(* Python's None is the value None below, which is no text over any        *)
(* alphabet of characters.                                                 *)
(***************************************************************************)
EXTENDS Integers, Sequences, FiniteSets, TLC

VARIABLES
    store,         \* the Comic table: a sequence of rows, row i has pk = i
    clean_chars,   \* handle: options['clean_special_chars']
    row_num,       \* handle: rows read so far (enumerate(reader, 1))
    count,         \* handle: rows upserted
    errors,        \* handle: rows whose processing raised
    parsed,        \* handle: the last parsed record (<<>> before the first row)
    found,         \* upsert_from_parsed: what the lookup returned, <<>> for None, <<obj>> otherwise
    importers,     \* concurrent imports: each one's position and locals
    SearchLog,     \* the SearchLog table: a sequence of entries, oldest first
    searches,      \* calls of search so far
    search_call,   \* the last call of search: its arguments, applied_filters and results
    filter_call,   \* the last direct call of a filter's apply_filter
    service_call,  \* the last call of sort_results, group or top_results
    parse_call,    \* the last direct call of a parser or of a cleaner
    session,       \* request.session: the keys that are set and their values
    view_call,     \* the last request a view answered, and its response
    fname,         \* handle: the position in CSV_FILES of the file being processed
    fh,            \* handle: whether that file is open
    total_imported,\* handle: total_imported
    total_errors,  \* handle: total_errors
    summary        \* handle: the (imported, errors) lines written per file

vars == <<store, clean_chars, row_num, count, errors, parsed, found, importers,
          SearchLog, searches, search_call, filter_call, service_call,
          parse_call, session, view_call, fname, fh, total_imported, total_errors, summary>>

\* the variables of the views and of the direct parser calls
view_vars == <<parse_call, session, view_call>>

\* the variables of handle's loop over CSV_FILES
file_vars == <<fname, fh, total_imported, total_errors, summary>>

----------------------------------------------------------------------------
(* Bounds of the model *)

\* rows one import processes
MaxRows == 2

\* rows each of the concurrent imports processes
MaxRaceRows == 1

\* calls of search in one behaviour
MaxSearches == 1

\* parameters one call of search supplies
MaxPresent == 3

----------------------------------------------------------------------------
(* Python values and str methods *)

None == <<"<None>">>

\* Python truthiness of an optional text or list
Truthy(v) == v # None /\ v # <<>>

\* a or b
Or(a, b) == IF Truthy(a) THEN a ELSE b

ToSet(s) == {s[i] : i \in 1..Len(s)}

\* every list holding each element of S exactly once (list(set) has no defined order)
Orderings(S) ==
    {f \in [1..Cardinality(S) -> S] : \A i, j \in 1..Cardinality(S) : f[i] = f[j] => i = j}

Map(f(_), s) == [i \in 1..Len(s) |-> f(s[i])]

RECURSIVE Concat(_)
Concat(ss) == IF ss = <<>> THEN <<>> ELSE Head(ss) \o Concat(Tail(ss))

\* str.isspace and the class \s, on the whitespace of the model: space and tab
IsSpace(c) == c \in {" ", "\t"}

RECURSIVE lstrip(_)
lstrip(s) == IF s # <<>> /\ IsSpace(s[1]) THEN lstrip(Tail(s)) ELSE s

RECURSIVE rstrip(_)
rstrip(s) == IF s # <<>> /\ IsSpace(s[Len(s)]) THEN rstrip(SubSeq(s, 1, Len(s) - 1)) ELSE s

\* str.strip()
strip(s) == rstrip(lstrip(s))

\* str.split(sep) for a one-character sep: n separators give n+1 parts
RECURSIVE split(_, _)
split(s, sep) ==
    IF \A i \in 1..Len(s) : s[i] # sep
    THEN <<s>>
    ELSE LET i == CHOOSE k \in 1..Len(s) : s[k] = sep /\ \A j \in 1..(k - 1) : s[j] # sep
         IN <<SubSeq(s, 1, i - 1)>> \o split(SubSeq(s, i + 1, Len(s)), sep)

\* str.replace(c, "")
remove(s, c) == SelectSeq(s, LAMBDA x : x # c)

NonEmpty(p) == p # <<>>

----------------------------------------------------------------------------
(* parsers.py *)

\* a faulty variant: the parts are trimmed, and the empty ones are kept
split_semicolon_field_KeepEmpty(value) ==
    IF ~Truthy(value) \/ strip(value) = <<>>
    THEN <<>>
    ELSE Map(strip, split(value, ";"))

split_semicolon_field(value) ==
    IF ~Truthy(value) \/ strip(value) = <<>>
    THEN <<>>
    ELSE Map(strip, SelectSeq(split(value, ";"), LAMBDA p : strip(p) # <<>>))

\* the sentinel "missing"
Missing == <<"m", "i", "s", "s", "i", "n", "g">>

parse_isbn(value) ==
    IF ~Truthy(value) \/ strip(value) = <<>>
    THEN <<Missing>>
    ELSE LET parts == SelectSeq(Map(strip, split(remove(value, " "), ",")), NonEmpty)
         IN IF parts = <<>> THEN <<Missing>> ELSE parts

normalize_text(value) == IF value = None THEN <<>> ELSE strip(value)

\* dict.get: None for a key the row does not hold
Get(row, key) == IF key \in DOMAIN row THEN row[key] ELSE None

\* the auxiliary columns, in the order parse_row_to_record visits them
OtherKeys == <<"Publisher", "Place of publication", "Topics", "Physical description", "Notes">>

\* key.lower().replace(" ", "_"), spelled as text
OtherFieldName(key) ==
    CASE key = "Publisher" -> <<"p", "u", "b", "l", "i", "s", "h", "e", "r">>
      [] key = "Place of publication" ->
            <<"p", "l", "a", "c", "e", "_", "o", "f", "_", "p", "u", "b", "l", "i", "c", "a", "t", "i", "o", "n">>
      [] key = "Topics" -> <<"t", "o", "p", "i", "c", "s">>
      [] key = "Physical description" ->
            <<"p", "h", "y", "s", "i", "c", "a", "l", "_", "d", "e", "s", "c", "r", "i", "p", "t", "i", "o", "n">>
      [] key = "Notes" -> <<"n", "o", "t", "e", "s">>

\* one entry of other_fields: a scalar text (items holds it alone) or a list of texts
OtherValue(val) ==
    IF Truthy(val) /\ (\E i \in 1..Len(val) : val[i] = ";")
    THEN [kind |-> "list", items |-> split_semicolon_field(val)]
    ELSE [kind |-> "scalar", items |-> <<normalize_text(val)>>]

\* other_fields is a dict: a sequence of entries in insertion order
RECURSIVE ParseOther(_, _)
ParseOther(row, keys) ==
    IF keys = <<>> THEN <<>>
    ELSE (IF Head(keys) \in DOMAIN row
          THEN <<[key |-> OtherFieldName(Head(keys))] @@ OtherValue(row[Head(keys)])>>
          ELSE <<>>) \o ParseOther(row, Tail(keys))

parse_row_to_record(row) ==
    [bl_record_id |-> normalize_text(Or(Get(row, "BL record ID"),
                                        Or(Get(row, "BL record id"), Get(row, "BL record id")))),
     title |-> normalize_text(Or(Get(row, "Title"), Get(row, "Title "))),
     variant_titles |-> split_semicolon_field(Or(Get(row, "Variant titles"), Get(row, "Variant titles "))),
     authors |-> split_semicolon_field(Or(Get(row, "Name"), Get(row, "Name "))),
     publication_years |->
         split_semicolon_field(Or(Get(row, "Date of publication"), Get(row, "Date of publication "))),
     genres |-> split_semicolon_field(Or(Get(row, "Genre"), Get(row, "Genre "))),
     languages |-> split_semicolon_field(Or(Get(row, "Languages"), Get(row, "Languages "))),
     isbn |-> parse_isbn(Or(Get(row, "ISBN"), Get(row, "ISBN "))),
     other_fields |-> ParseOther(row, OtherKeys)]

----------------------------------------------------------------------------
(* import_comics.py: clean_special_characters *)

Letters == {"a", "b", "c", "d", "e", "f", "g", "h", "i", "j", "k", "l", "m", "n", "o", "p", "q",
            "r", "s", "t", "u", "v", "w", "x", "y", "z",
            "A", "B", "C", "D", "E", "F", "G", "H", "I", "J", "K", "L", "M", "N", "O", "P", "Q",
            "R", "S", "T", "U", "V", "W", "X", "Y", "Z"}

Digits == {"0", "1", "2", "3", "4", "5", "6", "7", "8", "9"}

\* the replacements table, for the characters of the model's alphabet (ASCII)
Replacement(c) ==
    CASE c = "&" -> <<" ", "a", "n", "d", " ">>
      [] c = "@" -> <<" ", "a", "t", " ">>
      [] c = "#" -> <<" ", "n", "u", "m", "b", "e", "r", " ">>
      [] c = "%" -> <<" ", "p", "e", "r", "c", "e", "n", "t", " ">>
      [] c = "$" -> <<" ", "d", "o", "l", "l", "a", "r", " ">>
      [] OTHER -> <<c>>

\* the character class [\w\s\-\.\,\!\?\:\;\(\)]
Kept(c) ==
    \/ c \in Letters \cup Digits \cup {"_", "-", ".", ",", "!", "?", ":", ";", "(", ")"}
    \/ IsSpace(c)

\* a faulty variant: two whitespace characters become one space, pair by pair
RECURSIVE CollapseSpaces_ByOne(_)
CollapseSpaces_ByOne(s) ==
    IF s = <<>> THEN s
    ELSE IF IsSpace(s[1])
         THEN IF Len(s) >= 2 /\ IsSpace(s[2])
              THEN <<" ">> \o CollapseSpaces_ByOne(Tail(Tail(s)))
              ELSE <<" ">> \o CollapseSpaces_ByOne(Tail(s))
         ELSE <<s[1]>> \o CollapseSpaces_ByOne(Tail(s))

\* re.sub(r'\s+', ' ', text): every run of whitespace becomes one space
RECURSIVE CollapseSpaces(_)
CollapseSpaces(s) ==
    IF s = <<>> THEN s
    ELSE IF IsSpace(s[1])
         THEN IF Len(s) >= 2 /\ IsSpace(s[2])
              THEN CollapseSpaces(Tail(s))
              ELSE <<" ">> \o CollapseSpaces(Tail(s))
         ELSE <<s[1]>> \o CollapseSpaces(Tail(s))

clean_special_characters(text) ==
    IF ~Truthy(text) THEN text
    ELSE LET replaced == Concat(Map(Replacement, text))
             blanked == [i \in 1..Len(replaced) |->
                            IF Kept(replaced[i]) THEN replaced[i] ELSE " "]
         IN strip(CollapseSpaces(blanked))

\* models.py: Comic.get_clean_title, the same rules on self.title or ""
get_clean_title(title) ==
    LET text == Or(title, <<>>)
        replaced == Concat(Map(Replacement, text))
        blanked == [i \in 1..Len(replaced) |->
                       IF Kept(replaced[i]) THEN replaced[i] ELSE " "]
    IN strip(CollapseSpaces(blanked))

\* handle: cleaned_row
CleanRow(row) == [k \in DOMAIN row |-> clean_special_characters(row[k])]

----------------------------------------------------------------------------
(* models.py, repositories.py: the Comic table and upsert_from_parsed *)

\* Comic(bl_record_id=...): the field defaults, pk 0 for an unsaved object
NewComic(id) ==
    [pk |-> 0, bl_record_id |-> id, title |-> <<>>, variant_titles |-> <<>>, authors |-> <<>>,
     publication_years |-> <<>>, genres |-> <<>>, languages |-> <<>>, isbn |-> <<>>,
     other_fields |-> <<>>]

\* Comic.objects.filter(bl_record_id=id).first(): <<>> for None
Lookup(table, id) ==
    LET hits == {i \in 1..Len(table) : table[i].bl_record_id = id}
    IN IF hits = {} THEN <<>>
       ELSE <<table[CHOOSE i \in hits : \A j \in hits : i <= j]>>

\* a faulty variant: the field is assigned the parsed list, without the union
MergedList_NoUnion(obj, old, new) == {new}

\* list({*old, *new}) if obj.pk else new: the lists a multi-valued field may be set to
MergedList(obj, old, new) ==
    IF obj.pk # 0 THEN Orderings(ToSet(old) \cup ToSet(new)) ELSE {new}

\* a faulty variant: the title is always overwritten
MergedTitle_Overwrite(obj, p) == p.title

\* parsed["title"] or obj.title or parsed["title"]
MergedTitle(obj, p) == Or(p.title, Or(obj.title, p.title))

\* a faulty variant: identifiers merged like the other lists
MergedIsbn_Union(obj, p) == obj.isbn \o SelectSeq(p.isbn, LAMBDA x : x \notin ToSet(obj.isbn))

\* obj.isbn = parsed.get("isbn", ["missing"])
MergedIsbn(obj, p) == p.isbn

\* {**old, **new}: old keys keep their place and take the new value, new keys follow
MergedOther(old, new) ==
    LET newval(k) == new[CHOOSE j \in 1..Len(new) : new[j].key = k /\
                                  \A h \in (j + 1)..Len(new) : new[h].key # k]
        kept == [i \in 1..Len(old) |->
                    IF \E j \in 1..Len(new) : new[j].key = old[i].key
                    THEN newval(old[i].key) ELSE old[i]]
    IN kept \o SelectSeq(new, LAMBDA e : \A i \in 1..Len(old) : old[i].key # e.key)

\* a faulty variant: a copy-and-paste slip, authors merged with the stored variant titles
MergeOutcomes_WrongField(obj, p) ==
    {[obj EXCEPT !.title = MergedTitle(obj, p),
                 !.variant_titles = vt,
                 !.authors = au,
                 !.publication_years = py,
                 !.genres = ge,
                 !.languages = la,
                 !.isbn = MergedIsbn(obj, p),
                 !.other_fields = MergedOther(obj.other_fields, p.other_fields)] :
        vt \in MergedList(obj, obj.variant_titles, p.variant_titles),
        au \in MergedList(obj, obj.variant_titles, p.authors),
        py \in MergedList(obj, obj.publication_years, p.publication_years),
        ge \in MergedList(obj, obj.genres, p.genres),
        la \in MergedList(obj, obj.languages, p.languages)}

\* the objects upsert_from_parsed may hand to save()
MergeOutcomes(obj, p) ==
    {[obj EXCEPT !.title = MergedTitle(obj, p),
                 !.variant_titles = vt,
                 !.authors = au,
                 !.publication_years = py,
                 !.genres = ge,
                 !.languages = la,
                 !.isbn = MergedIsbn(obj, p),
                 !.other_fields = MergedOther(obj.other_fields, p.other_fields)] :
        vt \in MergedList(obj, obj.variant_titles, p.variant_titles),
        au \in MergedList(obj, obj.authors, p.authors),
        py \in MergedList(obj, obj.publication_years, p.publication_years),
        ge \in MergedList(obj, obj.genres, p.genres),
        la \in MergedList(obj, obj.languages, p.languages)}

\* a faulty variant: the column without its unique constraint
UniqueViolation_None(table, obj) == FALSE

\* bl_record_id is unique=True: an INSERT of an id the table holds raises IntegrityError
UniqueViolation(table, obj) == \E i \in 1..Len(table) : table[i].bl_record_id = obj.bl_record_id

\* obj.save(): INSERT for an unsaved object, UPDATE of row pk otherwise
Save(table, obj) ==
    IF obj.pk = 0
    THEN IF UniqueViolation(table, obj)
         THEN [raised |-> TRUE, table |-> table]
         ELSE [raised |-> FALSE, table |-> Append(table, [obj EXCEPT !.pk = Len(table) + 1])]
    ELSE [raised |-> FALSE, table |-> [table EXCEPT ![obj.pk] = obj]]

\* the object upsert_from_parsed starts from
Target(hit, p) == IF hit = <<>> THEN NewComic(p.bl_record_id) ELSE hit[1]

----------------------------------------------------------------------------
(* The rows the model imports *)

Ids == {<<"1">>, <<"0", "2">>}

Row2(k1, v1, k2, v2) == (k1 :> v1) @@ (k2 :> v2)

MultiColumns == {"Variant titles", "Name", "Date of publication", "Genre", "Languages"}

TitleRaws == {<<>>, <<"T">>, <<" ", "U", " ">>}

IsbnRaws == {<<"X">>, <<" ", "X", " ", ",", " ", "Y", " ">>, <<" ", ",", " ">>,
             Missing \o <<",", "X">>}

MultiRaws == {<<"A">>, <<"B", " ", ";", ";", "B">>}

NotesRaws == {<<"n">>, <<"p", ";", "q">>}

\* a row with every column set
FullRow(id) ==
    [k \in {"BL record ID", "Title"} \cup MultiColumns \cup {"ISBN", "Notes"} |->
        CASE k = "BL record ID" -> id
          [] k = "Title" -> <<"T">>
          [] k = "ISBN" -> <<"X">>
          [] k = "Notes" -> <<"n">>
          [] k = "Variant titles" -> <<"V">>
          [] OTHER -> <<"A">>]

\* the table before an import: empty, or holding a Record an earlier import saved
Tables ==
    {<<>>,
     <<[NewComic(<<"1">>) EXCEPT !.pk = 1, !.title = <<"T">>, !.authors = << <<"C">> >>,
                               !.isbn = << <<"X">> >>]>>}

Rows ==
    {Row2("BL record ID", id, "Title", t) : id \in Ids, t \in TitleRaws}
    \cup {Row2("BL record ID", id, "ISBN", i) : id \in Ids, i \in IsbnRaws}
    \cup UNION {{Row2("BL record ID", id, c, m) : id \in Ids, m \in MultiRaws} : c \in MultiColumns}
    \cup {Row2("BL record ID", id, "Notes", n) : id \in Ids, n \in NotesRaws}
    \cup {FullRow(id) : id \in Ids}
    \cup {Row2("BL record ID", <<" ">>, "Title", <<"T">>)}

\* no view was called and no parser directly
InitViews ==
    /\ parse_call = <<>>
    /\ session = <<>>
    /\ view_call = <<>>

\* handle before its loop over CSV_FILES
InitFiles ==
    /\ fname = 0
    /\ fh = "closed"
    /\ total_imported = 0
    /\ total_errors = 0
    /\ summary = <<>>

----------------------------------------------------------------------------
(* Sequential ingestion: import_comics.py handle, one file, row by row *)

Init ==
    /\ store \in Tables
    /\ clean_chars \in BOOLEAN
    /\ row_num = 0
    /\ count = 0
    /\ errors = 0
    /\ parsed = <<>>
    /\ found = <<>>
    /\ importers = <<>>
    /\ SearchLog = <<>>
    /\ searches = 0
    /\ search_call = <<>>
    /\ filter_call = <<>>
    /\ service_call = <<>>
    /\ InitViews
    /\ InitFiles

\* one pass of the row loop on row r: clean, parse, upsert, count; db_raises
\* is the database refusing the save
ImportOf(r, db_raises) ==
    LET row == IF clean_chars THEN CleanRow(r) ELSE r
        p == parse_row_to_record(row)
        hit == Lookup(store, p.bl_record_id)
    IN /\ row_num' = row_num + 1
       /\ parsed' = <<p>>
       /\ IF Truthy(p.bl_record_id)
          THEN \E obj \in MergeOutcomes(Target(hit, p), p) :
                  LET saved == IF db_raises THEN [raised |-> TRUE, table |-> store]
                               ELSE Save(store, obj)
                  IN /\ found' = hit
                     /\ store' = saved.table
                     /\ count' = IF saved.raised THEN count ELSE count + 1
                     /\ errors' = IF saved.raised THEN errors + 1 ELSE errors
          ELSE UNCHANGED <<store, count, errors, found>>

\* the body of the row loop: clean, parse, upsert, count
ImportRow ==
    /\ row_num < MaxRows
    /\ \E r \in Rows : ImportOf(r, FALSE)
    /\ UNCHANGED <<clean_chars, importers, SearchLog, searches, search_call, filter_call, service_call,
                   view_vars, file_vars>>

Next == ImportRow

Spec == Init /\ [][Next]_vars

----------------------------------------------------------------------------
(* Two imports running at once: each upsert is a lookup, then a merge and a save *)

Importers == {1, 2}

RaceRows ==
    {Row2("BL record ID", id, "Name", m) : id \in Ids, m \in {<<"A">>, <<"B">>}}
    \cup {Row2("BL record ID", id, "Genre", <<"G">>) : id \in Ids}

InitRace ==
    /\ store \in Tables
    /\ clean_chars \in BOOLEAN
    /\ row_num = 0
    /\ count = 0
    /\ errors = 0
    /\ parsed = <<>>
    /\ found = <<>>
    /\ importers = [p \in Importers |->
                      [pc |-> "idle", row_num |-> 0, count |-> 0, errors |-> 0,
                       parsed |-> <<>>, found |-> <<>>]]
    /\ SearchLog = <<>>
    /\ searches = 0
    /\ search_call = <<>>
    /\ filter_call = <<>>
    /\ service_call = <<>>
    /\ InitViews
    /\ InitFiles

\* importer p reads a row, parses it and runs the lookup of upsert_from_parsed
RaceLookup(p) ==
    /\ importers[p].pc = "idle"
    /\ importers[p].row_num < MaxRaceRows
    /\ \E r \in RaceRows :
        LET row == IF clean_chars THEN CleanRow(r) ELSE r
            q == parse_row_to_record(row)
        IN importers' = [importers EXCEPT ![p] =
              IF Truthy(q.bl_record_id)
              THEN [@ EXCEPT !.pc = "merge", !.row_num = @ + 1, !.parsed = <<q>>,
                             !.found = Lookup(store, q.bl_record_id)]
              ELSE [@ EXCEPT !.row_num = @ + 1, !.parsed = <<q>>]]
    /\ UNCHANGED <<store, clean_chars, row_num, count, errors, parsed, found,
                   SearchLog, searches, search_call, filter_call, service_call,
                   view_vars, file_vars>>

\* importer p merges into the object it looked up and saves it
RaceSave(p) ==
    /\ importers[p].pc = "merge"
    /\ LET me == importers[p]
           q == me.parsed[1]
       IN \E obj \in MergeOutcomes(Target(me.found, q), q) :
            LET saved == Save(store, obj)
            IN /\ store' = saved.table
               /\ importers' = [importers EXCEPT ![p] =
                     [@ EXCEPT !.pc = "idle",
                               !.count = IF saved.raised THEN @ ELSE @ + 1,
                               !.errors = IF saved.raised THEN @ + 1 ELSE @]]
    /\ UNCHANGED <<clean_chars, row_num, count, errors, parsed, found,
                   SearchLog, searches, search_call, filter_call, service_call,
                   view_vars, file_vars>>

NextRace == \E p \in Importers : RaceLookup(p) \/ RaceSave(p)

SpecRace == InitRace /\ [][NextRace]_vars

----------------------------------------------------------------------------
(* services.py: the filters *)

UpperCase == <<"A", "B", "C", "D", "E", "F", "G", "H", "I", "J", "K", "L", "M", "N", "O", "P", "Q",
               "R", "S", "T", "U", "V", "W", "X", "Y", "Z">>

LowerCase == <<"a", "b", "c", "d", "e", "f", "g", "h", "i", "j", "k", "l", "m", "n", "o", "p", "q",
               "r", "s", "t", "u", "v", "w", "x", "y", "z">>

\* lower case of every upper-case letter
FoldTable == [c \in ToSet(UpperCase) |-> LowerCase[CHOOSE i \in 1..Len(UpperCase) : UpperCase[i] = c]]

\* case folding of one character
Fold(c) == IF c \in DOMAIN FoldTable THEN FoldTable[c] ELSE c

IsSubstring(needle, hay) ==
    \E i \in 0..(Len(hay) - Len(needle)) : SubSeq(hay, i + 1, i + Len(needle)) = needle

\* the icontains lookup: column LIKE %value%, case-insensitive
icontains(column, value) == IsSubstring(Map(Fold, value), Map(Fold, column))

\* sep.join(parts)
RECURSIVE Join(_, _)
Join(parts, sep) ==
    IF parts = <<>> THEN <<>>
    ELSE IF Len(parts) = 1 THEN parts[1]
    ELSE parts[1] \o sep \o Join(Tail(parts), sep)

Quoted(t) == <<"\"">> \o t \o <<"\"">>

\* a JSONField list column as the database holds it: json.dumps of the list
DumpsList(l) == <<"[">> \o Join(Map(Quoted, l), <<",", " ">>) \o <<"]">>

DumpsEntry(e) ==
    Quoted(e.key) \o <<":", " ">> \o
    (IF e.kind = "list" THEN DumpsList(e.items) ELSE Quoted(e.items[1]))

\* the other_fields column: json.dumps of the dict
DumpsOther(d) == <<"{">> \o Join(Map(DumpsEntry, d), <<",", " ">>) \o <<"}">>

\* an argument of search or of apply_filter: None, a str, or a list of str
PNone == [kind |-> "none", items |-> <<>>]
PStr(t) == [kind |-> "str", items |-> <<t>>]
PList(l) == [kind |-> "list", items |-> l]

\* Python truthiness of an argument
Present(v) ==
    \/ v.kind = "str" /\ v.items[1] # <<>>
    \/ v.kind = "list" /\ v.items # <<>>

\* "not value or not value.strip()" of the text filters
BlankText(v) == ~Present(v) \/ strip(v.items[1]) = <<>>

\* LanguageFilter: the tokens of a comma-separated str or of a list
LanguageTokens(v) ==
    IF v.kind = "str"
    THEN Map(strip, SelectSeq(split(v.items[1], ","), LAMBDA t : strip(t) # <<>>))
    ELSE Map(strip, SelectSeq(v.items, LAMBDA t : t # <<>> /\ strip(t) # <<>>))

FilterOrder == <<"genre", "author", "year", "title", "languages", "edition", "name_type">>

FilterNames == ToSet(FilterOrder)

\* the columns filter name reads, as the database holds them
Columns(name, c) ==
    CASE name = "genre" -> <<DumpsList(c.genres)>>
      [] name = "author" -> <<DumpsList(c.authors)>>
      [] name = "year" -> <<DumpsList(c.publication_years)>>
      [] name = "title" -> <<c.title, DumpsList(c.variant_titles)>>
      [] name = "languages" -> <<DumpsList(c.languages)>>
      [] name = "edition" -> <<DumpsOther(c.other_fields)>>
      [] name = "name_type" -> <<DumpsOther(c.other_fields)>>

\* the texts filter name looks for: value.strip(), or the language tokens
Needles(name, v) == IF name = "languages" THEN LanguageTokens(v) ELSE <<strip(v.items[1])>>

\* queryset.filter(...): some column holds some needle (the Q objects are OR-ed)
Keeps(name, c, needles) ==
    \E i \in 1..Len(Columns(name, c)), j \in 1..Len(needles) :
        icontains(Columns(name, c)[i], needles[j])

\* the early return of apply_filter
NoOp(name, v) ==
    IF name = "languages"
    THEN ~Present(v) \/ LanguageTokens(v) = <<>>
    ELSE BlankText(v)

\* a faulty variant: only a falsy value returns early, and the value is used as given
apply_filter_Unstripped(name, table, queryset, v) ==
    IF ~Present(v) THEN queryset
    ELSE {pk \in queryset :
            Keeps(name, table[pk], IF v.kind = "str" THEN <<v.items[1]>> ELSE v.items)}

\* a faulty variant: the filter runs on the whole table instead of narrowing the queryset
apply_filter_FromAll(name, table, queryset, v) ==
    IF NoOp(name, v) THEN queryset
    ELSE {pk \in 1..Len(table) : Keeps(name, table[pk], Needles(name, v))}

\* self.filters[name].apply_filter(queryset, value); a queryset is the set of pks it selects
apply_filter(name, table, queryset, v) ==
    IF NoOp(name, v) THEN queryset
    ELSE {pk \in queryset : Keeps(name, table[pk], Needles(name, v))}

----------------------------------------------------------------------------
(* services.py: ComicSearchService.search *)

\* _clean_search_params, one value
CleanParam(v) ==
    CASE v.kind = "none" -> PNone
      [] v.kind = "str" -> IF strip(v.items[1]) = <<>> THEN PNone ELSE PStr(strip(v.items[1]))
      [] v.kind = "list" ->
            LET clean_list == Map(strip, SelectSeq(v.items, LAMBDA t : t # <<>> /\ strip(t) # <<>>))
            IN IF clean_list = <<>> THEN PNone ELSE PList(clean_list)

\* the keyword of search that feeds each filter
Keyword(name) == IF name = "title" THEN "title_query" ELSE name

\* a faulty variant: the filter loop without its early exit
RunFilters_NoBreak(names, table, params, queryset, applied) ==
    LET RECURSIVE go(_, _, _)
        go(ns, qs, ap) ==
            IF ns = <<>> THEN [qs |-> qs, applied |-> ap]
            ELSE IF Present(params[Head(ns)])
                 THEN go(Tail(ns), apply_filter(Head(ns), table, qs, params[Head(ns)]),
                         Append(ap, [name |-> Head(ns), value |-> params[Head(ns)]]))
                 ELSE go(Tail(ns), qs, ap)
    IN go(names, queryset, applied)

\* the filter loop: the filters of the present parameters in order, until one leaves nothing
RunFilters(names, table, params, queryset, applied) ==
    LET RECURSIVE go(_, _, _)
        go(ns, qs, ap) ==
            IF ns = <<>> THEN [qs |-> qs, applied |-> ap]
            ELSE IF Present(params[Head(ns)])
                 THEN LET next == apply_filter(Head(ns), table, qs, params[Head(ns)])
                          ap2 == Append(ap, [name |-> Head(ns), value |-> params[Head(ns)]])
                      IN IF next = {} THEN [qs |-> next, applied |-> ap2]
                         ELSE go(Tail(ns), next, ap2)
                 ELSE go(Tail(ns), qs, ap)
    IN go(names, queryset, applied)

\* the characters of the model in code point order
CodePoints == <<" ", "!", "\"", "#", "$", "%", "&", "'", "(", ")", "*", ",", "-", ".",
                "0", "1", "2", "3", "4", "5", "6", "7", "8", "9", ":", ";", "=", "?", "@">>
              \o UpperCase \o <<"[", "]", "_">> \o LowerCase \o <<"{", "}">>

CodeTable == [c \in ToSet(CodePoints) |-> CHOOSE i \in 1..Len(CodePoints) : CodePoints[i] = c]

Code(c) == CodeTable[c]

\* a < b in the database's ordering of a CharField (code point by code point)
RECURSIVE TextLess(_, _)
TextLess(a, b) ==
    IF b = <<>> THEN FALSE
    ELSE IF a = <<>> THEN TRUE
    ELSE IF a[1] = b[1] THEN TextLess(Tail(a), Tail(b))
    ELSE Code(a[1]) < Code(b[1])

\* the members of the set S of numbers from lo to hi, ascending
RECURSIVE Between(_, _, _)
Between(S, lo, hi) ==
    IF lo > hi THEN <<>>
    ELSE IF lo = hi THEN IF lo \in S THEN <<lo>> ELSE <<>>
    ELSE Between(S, lo, (lo + hi) \div 2) \o Between(S, (lo + hi) \div 2 + 1, hi)

\* qs.order_by("title"): the orders the database may return, rows of equal title
\* in any order. Where the titles rise strictly with the primary key there is one.
OrderByTitle(table, queryset) ==
    LET byPk == Between(queryset, 1, Len(table))
    IN IF \A i \in 1..(Len(byPk) - 1) :
             TextLess(table[byPk[i]].title, table[byPk[i + 1]].title)
       THEN {byPk}
       ELSE {l \in Orderings(queryset) :
               \A i, j \in 1..Len(l) : i < j => ~TextLess(table[l[j]].title, table[l[i]].title)}

\* the slice [:10000]
Limit == 10000

\* a faulty variant: the list is not cut
Truncate_Whole(l) == l

Truncate(l) == IF Len(l) > Limit THEN SubSeq(l, 1, Limit) ELSE l

ParamText(name) ==
    CASE name = "genre" -> <<"g", "e", "n", "r", "e">>
      [] name = "author" -> <<"a", "u", "t", "h", "o", "r">>
      [] name = "year" -> <<"y", "e", "a", "r">>
      [] name = "title" -> <<"t", "i", "t", "l", "e">>
      [] name = "languages" -> <<"l", "a", "n", "g", "u", "a", "g", "e", "s">>
      [] name = "edition" -> <<"e", "d", "i", "t", "i", "o", "n">>
      [] name = "name_type" -> <<"n", "a", "m", "e", "_", "t", "y", "p", "e">>

SingleQuoted(t) == <<"'">> \o t \o <<"'">>

\* str(value) inside the f-string: a str as it is, a list as its repr
ValueText(v) ==
    IF v.kind = "str" THEN v.items[1]
    ELSE <<"[">> \o Join(Map(SingleQuoted, v.items), <<",", " ">>) \o <<"]">>

AppliedText(a) == ParamText(a.name) \o <<"=">> \o ValueText(a.value)

EmptySearch == <<"e", "m", "p", "t", "y", "_", "s", "e", "a", "r", "c", "h">>

\* a faulty variant: the pairs are joined with "AND" without the spaces around it
QueryText_Unspaced(applied) ==
    IF applied = <<>> THEN EmptySearch
    ELSE Join(Map(AppliedText, applied), <<"A", "N", "D">>)

\* " AND ".join(applied_filters) if applied_filters else "empty_search"
QueryText(applied) ==
    IF applied = <<>> THEN EmptySearch
    ELSE Join(Map(AppliedText, applied), <<" ", "A", "N", "D", " ">>)

AllPks(table) == 1..Len(table)

----------------------------------------------------------------------------
(* The store and the arguments the searches of the model run on *)

Entry(k, kind, items) == [key |-> k, kind |-> kind, items |-> items]

\* three Comics after the fixtures of tests/test_integration.py, names shortened
Seeds ==
    <<[pk |-> 1, bl_record_id |-> <<"1">>, title |-> <<"S">>, variant_titles |-> <<>>,
       authors |-> << <<"L">>, <<"K">> >>, publication_years |-> << <<"6", "3">>, <<"6", "4">> >>,
       genres |-> << <<"F">>, <<"A">> >>, languages |-> << <<"E">> >>, isbn |-> << <<"X">> >>,
       other_fields |-> <<Entry(OtherFieldName("Publisher"), "scalar", << <<"M">> >>),
                          Entry(OtherFieldName("Notes"), "list", << <<"1">>, <<"2">> >>)>>],
      [pk |-> 2, bl_record_id |-> <<"0", "2">>, title |-> <<"B">>,
       variant_titles |-> << <<"D">>, <<"B", "d">> >>,
       authors |-> << <<"M">> >>, publication_years |-> << <<"8", "6">> >>,
       genres |-> << <<"H">>, <<"D">> >>, languages |-> << <<"E">>, <<"F">> >>,
       isbn |-> <<Missing>>,
       other_fields |-> <<Entry(OtherFieldName("Publisher"), "scalar", << <<"D">> >>),
                          Entry(OtherFieldName("Topics"), "scalar", << <<"L">> >>)>>],
      [pk |-> 3, bl_record_id |-> <<"3">>, title |-> <<"W">>, variant_titles |-> <<>>,
       authors |-> << <<"A", "M">>, <<"G">> >>, publication_years |-> << <<"8", "7">> >>,
       genres |-> << <<"S", "f">>, <<"D">> >>, languages |-> << <<"E">> >>,
       isbn |-> << <<"Y">> >>, other_fields |-> <<>>]>>

\* the tables the searches run on: none, the three Comics, and two Comics of
\* which one has a title that starts in lower case
SearchTables ==
    {<<>>, Seeds, <<[Seeds[1] EXCEPT !.title = <<"a">>], Seeds[2]>>}

\* the values a call may pass for each keyword, besides None
ParamValues(name) ==
    CASE name = "genre" -> <<PStr(<<"s", "f">>), PStr(<<"z">>)>>
      [] name = "author" -> <<PStr(<<" ", "M", " ">>), PStr(<<" ">>)>>
      [] name = "year" -> <<PStr(<<"8">>)>>
      [] name = "title" -> <<PStr(<<"d">>)>>
      [] name = "languages" -> <<PList(<< <<" ", "f">>, <<" ">> >>)>>
      [] name = "edition" -> <<PStr(<<"t", "o", "p", "i", "c", "s">>)>>
      [] name = "name_type" -> <<PStr(<<"M">>)>>

\* the keyword arguments of one call: at most MaxPresent of the filters are given a value
SearchArgs ==
    UNION {{[k \in {Keyword(n) : n \in FilterNames} |->
                LET n == IF k = "title_query" THEN "title" ELSE k
                IN IF n \in given THEN ParamValues(n)[pick[n]] ELSE PNone] :
              pick \in {f \in [given -> 1..2] : \A n \in given : f[n] <= Len(ParamValues(n))}} :
           given \in {g \in SUBSET FilterNames : Cardinality(g) <= MaxPresent}}

\* the values the model hands to apply_filter directly
FilterValues ==
    {PNone, PStr(<<>>), PStr(<<" ">>), PStr(<<" ", " ">>), PStr(<<"D">>), PStr(<<" ", "e">>),
     PStr(<<",", " ">>), PStr(<<"[">>), PStr(<<" ", "e", ",", "F", ",">>),
     PList(<<>>), PList(<< <<" ">>, <<>> >>), PList(<< <<"F">> >>),
     PList(<< <<" ", "f">>, <<"z">> >>)}

InitSearch ==
    /\ store \in SearchTables
    /\ clean_chars = FALSE
    /\ row_num = 0
    /\ count = 0
    /\ errors = 0
    /\ parsed = <<>>
    /\ found = <<>>
    /\ importers = <<>>
    /\ SearchLog = <<>>
    /\ searches = 0
    /\ search_call = <<>>
    /\ filter_call = <<>>
    /\ service_call = <<>>
    /\ InitViews
    /\ InitFiles

\* a faulty variant: the new entry replaces the log
CreateLog_Overwrite(log, entry, written) ==
    IF written THEN [raised |-> FALSE, log |-> <<entry>>]
    ELSE [raised |-> TRUE, log |-> log]

\* SearchLog.objects.create(...): the entry is appended, or the write raises and
\* the table is as it was
CreateLog(log, entry, written) ==
    IF written THEN [raised |-> FALSE, log |-> Append(log, entry)]
    ELSE [raised |-> TRUE, log |-> log]

\* a faulty variant: the exception of the log write reaches the caller
Swallow_Reraise(raised) == raised

\* try: ... except Exception: pass. Whether an exception raised inside escapes
Swallow(raised) == FALSE

\* search(**args): clean, filter, order, truncate, log; the log write may fail
SearchCall(args) ==
    /\ searches < MaxSearches
    /\ searches' = searches + 1
    /\ \E written \in BOOLEAN :
        LET cleaned == [k \in DOMAIN args |-> CleanParam(args[k])]
            search_params == [n \in FilterNames |-> cleaned[Keyword(n)]]
            run == RunFilters(FilterOrder, store, search_params, AllPks(store), <<>>)
        IN \E ordered \in OrderByTitle(store, run.qs) :
            LET results == Truncate(ordered)
                created == CreateLog(SearchLog,
                                     [query_text |-> QueryText(run.applied),
                                      result_ids |-> [i \in 1..Len(results) |->
                                                         store[results[i]].bl_record_id],
                                      num_results |-> Len(results)],
                                     written)
            IN /\ search_call' = <<[args |-> args, applied_filters |-> run.applied,
                                    results |-> results, log_raised |-> created.raised,
                                    raised |-> Swallow(created.raised)]>>
               /\ SearchLog' = created.log

\* search(**args) for args of argset, called on its own
SearchWith(argset) ==
    /\ \E args \in argset : SearchCall(args)
    /\ UNCHANGED <<store, clean_chars, row_num, count, errors, parsed, found, importers,
                   filter_call, service_call,
                   view_vars, file_vars>>

Search == SearchWith(SearchArgs)

\* a filter applied on its own to a queryset, as the filter tests do
ApplyFilter ==
    /\ \E name \in FilterNames, queryset \in SUBSET AllPks(store), v \in FilterValues :
        /\ name # "languages" => v.kind # "list"
        /\ filter_call' = <<[name |-> name, value |-> v, queryset |-> queryset,
                             result |-> apply_filter(name, store, queryset, v)]>>
    /\ UNCHANGED <<store, clean_chars, row_num, count, errors, parsed, found, importers,
                   SearchLog, searches, search_call, service_call,
                   view_vars, file_vars>>

NextSearch == Search

SpecSearch == InitSearch /\ [][NextSearch]_vars

NextFilter == ApplyFilter

SpecFilter == InitSearch /\ [][NextFilter]_vars

----------------------------------------------------------------------------
(* services.py: sorted(...), top_results, and the log they read *)

Reverse(s) == [i \in 1..Len(s) |-> s[Len(s) + 1 - i]]

\* x put into the sorted list s, after the elements it is not less than
RECURSIVE InsertSorted(_, _, _)
InsertSorted(Less(_, _), x, s) ==
    IF s = <<>> THEN <<x>>
    ELSE IF Less(x, s[1]) THEN <<x>> \o s
    ELSE <<s[1]>> \o InsertSorted(Less, x, Tail(s))

\* a stable ascending sort
RECURSIVE StableSort(_, _)
StableSort(Less(_, _), s) ==
    IF s = <<>> THEN <<>>
    ELSE InsertSorted(Less, s[Len(s)], StableSort(Less, SubSeq(s, 1, Len(s) - 1)))

\* sorted(s, key=..., reverse=reverse): list.sort reverses the list, sorts it
\* stably and reverses it again when reverse is set
Sorted(Less(_, _), s, reverse) ==
    IF reverse THEN Reverse(StableSort(Less, Reverse(s))) ELSE StableSort(Less, s)

\* the rids that top_results meets, log by log, in the order it meets them
MetIds(log) == Concat([i \in 1..Len(log) |-> log[i].result_ids])

\* the keys of counts, in insertion order
RECURSIVE FirstSeen(_)
FirstSeen(ids) ==
    IF ids = <<>> THEN <<>>
    ELSE LET front == FirstSeen(SubSeq(ids, 1, Len(ids) - 1))
         IN IF ids[Len(ids)] \in ToSet(front) THEN front ELSE Append(front, ids[Len(ids)])

\* counts[rid]
CountOf(rid, ids) == Cardinality({i \in 1..Len(ids) : ids[i] = rid})

\* the slice [:limit]
Take(s, limit) == SubSeq(s, 1, IF Len(s) < limit THEN Len(s) ELSE limit)

\* top_results(limit): a list of (comic, cnt), comic <<>> for None
top_results(log, table, limit) ==
    LET ids == MetIds(log)
        counts == [i \in 1..Len(FirstSeen(ids)) |->
                      [rid |-> FirstSeen(ids)[i], cnt |-> CountOf(FirstSeen(ids)[i], ids)]]
        ByCount(a, b) == a.cnt < b.cnt
        items == Take(Sorted(ByCount, counts, TRUE), limit)
    IN [i \in 1..Len(items) |->
           [comic |-> Lookup(table, items[i].rid), cnt |-> items[i].cnt]]

----------------------------------------------------------------------------
(* The reports: searches that fill the log, a Comic deleted, top_results *)

NoArgs == [k \in {Keyword(n) : n \in FilterNames} |-> PNone]

OneArg(name, v) == [NoArgs EXCEPT ![Keyword(name)] = v]

\* the calls of search that fill the log
ReportArgs ==
    {NoArgs, OneArg("genre", PStr(<<"D">>)), OneArg("genre", PStr(<<"z">>)),
     OneArg("author", PStr(<<"M">>)), OneArg("year", PStr(<<"6">>))}

\* the entry search(genre="D") wrote on the three Comics
OldEntry ==
    [query_text |-> QueryText(<<[name |-> "genre", value |-> PStr(<<"D">>)]>>),
     result_ids |-> << <<"0", "2">>, <<"3">> >>,
     num_results |-> 2]

\* the limits top_results is called with (10 is its default)
TopLimits == {0, 1, 10}

InitReport ==
    /\ store = Seeds
    /\ clean_chars = FALSE
    /\ row_num = 0
    /\ count = 0
    /\ errors = 0
    /\ parsed = <<>>
    /\ found = <<>>
    /\ importers = <<>>
    /\ SearchLog \in {<<>>, <<OldEntry>>}
    /\ searches = 0
    /\ search_call = <<>>
    /\ filter_call = <<>>
    /\ service_call = <<>>
    /\ InitViews
    /\ InitFiles

LoggedSearch == SearchWith(ReportArgs)

\* Comic.delete() of the newest Comic; the log keeps the ids it recorded
DeleteComic ==
    /\ store # <<>>
    /\ store' = SubSeq(store, 1, Len(store) - 1)
    /\ UNCHANGED <<clean_chars, row_num, count, errors, parsed, found, importers,
                   SearchLog, searches, search_call, filter_call, service_call,
                   view_vars, file_vars>>

\* a call of top_results
TopResults ==
    /\ \E limit \in TopLimits :
         service_call' = <<[op |-> "top_results", limit |-> limit,
                            result |-> top_results(SearchLog, store, limit)]>>
    /\ UNCHANGED <<store, clean_chars, row_num, count, errors, parsed, found, importers,
                   SearchLog, searches, search_call, filter_call,
                   view_vars, file_vars>>

NextReport == LoggedSearch \/ DeleteComic \/ TopResults

SpecReport == InitReport /\ [][NextReport]_vars

----------------------------------------------------------------------------
(* services.py: sort_results and group, applied to lists of Comics *)

\* key=lambda c: (c.title or "").lower()
TitleKey(c) == [i \in 1..Len(c.title) |-> Fold(c.title[i])]

\* a faulty variant: descending order got by reversing the ascending list
sort_results_Reversed(table, results, order) ==
    LET ByTitle(a, b) == TextLess(TitleKey(table[a]), TitleKey(table[b]))
    IN IF order = "asc" THEN StableSort(ByTitle, results)
       ELSE IF order = "desc" THEN Reverse(StableSort(ByTitle, results))
       ELSE results

\* sort_results(results, order); a result list is the list of its Comics' pks
sort_results(table, results, order) ==
    LET ByTitle(a, b) == TextLess(TitleKey(table[a]), TitleKey(table[b]))
    IN IF order \in {"asc", "desc"} THEN Sorted(ByTitle, results, order = "desc")
       ELSE results

Unknown == <<"U", "n", "k", "n", "o", "w", "n">>

\* comic.authors or ["Unknown"], comic.publication_years or ["Unknown"]
GroupValues(c, by) ==
    LET l == IF by = "author" THEN c.authors ELSE c.publication_years
    IN IF l = <<>> THEN <<Unknown>> ELSE l

\* group(results, by): the dict as the list of its (key, members) in insertion order
group(table, results, by) ==
    IF by \notin {"author", "year"} THEN <<>>
    ELSE LET pairs == Concat([i \in 1..Len(results) |->
                                [j \in 1..Len(GroupValues(table[results[i]], by)) |->
                                    [key |-> GroupValues(table[results[i]], by)[j],
                                     comic |-> results[i]]]])
             keys == FirstSeen([i \in 1..Len(pairs) |-> pairs[i].key])
             Members(k) == LET of_k == SelectSeq(pairs, LAMBDA q : q.key = k)
                           IN [i \in 1..Len(of_k) |-> of_k[i].comic]
         IN [i \in 1..Len(keys) |-> [key |-> keys[i], members |-> Members(keys[i])]]

\* the rows that were imported into the table the lists are taken from
ServiceRow(id, title, name, date) ==
    ("BL record ID" :> id) @@ ("Title" :> title) @@ ("Name" :> name)
    @@ ("Date of publication" :> date)

ServiceRows ==
    <<ServiceRow(<<"1">>, <<"b">>, <<"A", ";", "B">>, <<"6", "3">>),
      ServiceRow(<<"2">>, <<"B">>, <<"B", " ", ";", ";", "B">>, <<>>),
      ServiceRow(<<"3">>, <<"a">>, <<>>, <<"6", "3", ";", "6", "4">>),
      ServiceRow(<<"4">>, <<"A">>, <<"A">>, <<"6", "4">>)>>

\* the Comic the first import of a row creates
Imported(row) ==
    LET p == parse_row_to_record(row)
    IN CHOOSE obj \in MergeOutcomes(NewComic(p.bl_record_id), p) : TRUE

ServiceTable == [i \in 1..Len(ServiceRows) |-> [Imported(ServiceRows[i]) EXCEPT !.pk = i]]

\* the lists of at most n different Comics of the table
ResultLists(table, n) ==
    UNION {{l \in [1..k -> 1..Len(table)] : \A i, j \in 1..k : l[i] = l[j] => i = j} : k \in 0..n}

\* the longest list handed to sort_results and group
MaxResults == 3

InitService ==
    /\ store = ServiceTable
    /\ clean_chars = FALSE
    /\ row_num = 0
    /\ count = 0
    /\ errors = 0
    /\ parsed = <<>>
    /\ found = <<>>
    /\ importers = <<>>
    /\ SearchLog = <<>>
    /\ searches = 0
    /\ search_call = <<>>
    /\ filter_call = <<>>
    /\ service_call = <<>>
    /\ InitViews
    /\ InitFiles

\* a call of sort_results
SortResults ==
    /\ \E results \in ResultLists(store, MaxResults), order \in {"asc", "desc", "title"} :
         service_call' = <<[op |-> "sort_results", results |-> results, order |-> order,
                            result |-> sort_results(store, results, order)]>>
    /\ UNCHANGED <<store, clean_chars, row_num, count, errors, parsed, found, importers,
                   SearchLog, searches, search_call, filter_call,
                   view_vars, file_vars>>

\* a call of group
Group ==
    /\ \E results \in ResultLists(store, MaxResults), by \in {"author", "year", "title"} :
         service_call' = <<[op |-> "group", results |-> results, by |-> by,
                            groups |-> group(store, results, by)]>>
    /\ UNCHANGED <<store, clean_chars, row_num, count, errors, parsed, found, importers,
                   SearchLog, searches, search_call, filter_call,
                   view_vars, file_vars>>

NextService == SortResults \/ Group

SpecService == InitService /\ [][NextService]_vars

----------------------------------------------------------------------------
(* search on tables of about Limit Comics *)

DecimalDigits == <<"0", "1", "2", "3", "4", "5", "6", "7", "8", "9">>

\* n as five decimal digits
Decimal(n) ==
    <<DecimalDigits[((n \div 10000) % 10) + 1], DecimalDigits[((n \div 1000) % 10) + 1],
      DecimalDigits[((n \div 100) % 10) + 1], DecimalDigits[((n \div 10) % 10) + 1],
      DecimalDigits[(n % 10) + 1]>>

\* the Comic the import of a row with id and title n creates
BulkComic(n) ==
    [NewComic(Decimal(n)) EXCEPT !.pk = n, !.title = Decimal(n), !.isbn = <<Missing>>]

BulkTable(size) == [n \in 1..size |-> BulkComic(n)]

\* the most Comics of a small table
MaxFew == 9

\* how far over Limit the large tables go
MaxOver == 1

\* the sizes of the tables: a few Comics, and Limit Comics or more
BulkSizes == 0..MaxFew \cup Limit..(Limit + MaxOver)

\* the calls of search: unfiltered, a title most Comics hold, a title some
\* hold, a genre none holds
BulkArgs ==
    {NoArgs, OneArg("title", PStr(<<"0">>)), OneArg("title", PStr(<<"9">>)),
     OneArg("genre", PStr(<<"z">>))}

InitBulk ==
    /\ store \in {BulkTable(size) : size \in BulkSizes}
    /\ clean_chars = FALSE
    /\ row_num = 0
    /\ count = 0
    /\ errors = 0
    /\ parsed = <<>>
    /\ found = <<>>
    /\ importers = <<>>
    /\ SearchLog = <<>>
    /\ searches = 0
    /\ search_call = <<>>
    /\ filter_call = <<>>
    /\ service_call = <<>>
    /\ InitViews
    /\ InitFiles

BulkSearch == SearchWith(BulkArgs)

NextBulk == BulkSearch

SpecBulk == InitBulk /\ [][NextBulk]_vars

----------------------------------------------------------------------------
(* The parsers and the cleaners called on their own *)

\* the longest text handed to a parser or a cleaner
MaxText == 4

\* the texts of at most n characters of the alphabet A
Texts(A, n) == UNION {[1..k -> A] : k \in 0..n}

\* the values of an ISBN column: absent, or a text
IsbnInputs == {None} \cup Texts({" ", "\t", ",", "9", "X"}, MaxText)

\* the values of a multi-valued column
SplitInputs == {None} \cup Texts({" ", "\t", ";", "A", "B"}, MaxText)

\* the texts that are cleaned: a replaced symbol, a dropped one, a kept one,
\* whitespace, an underscore and a letter
CleanInputs == {None} \cup Texts({"&", "*", "-", " ", "\t", "_", "a"}, MaxText)

\* a column of a row: absent, empty or set
Cells(v) == {None, <<>>, v}

\* the row that holds the cells that are not absent
RowOf(cells) == [k \in {c \in DOMAIN cells : cells[c] # None} |-> cells[k]]

\* rows whose header has a column under one alias, under the other or under both
AliasRows ==
    {RowOf(("BL record ID" :> <<"1">>) @@ ("Title" :> t1) @@ ("Title " :> t2)
           @@ ("Name" :> n1) @@ ("Name " :> n2)) :
       t1 \in Cells(<<"T">>), t2 \in Cells(<<"U">>),
       n1 \in Cells(<<"A", ";", "B">>), n2 \in Cells(<<"C">>)}

InitParse ==
    /\ store = <<>>
    /\ clean_chars = FALSE
    /\ row_num = 0
    /\ count = 0
    /\ errors = 0
    /\ parsed = <<>>
    /\ found = <<>>
    /\ importers = <<>>
    /\ SearchLog = <<>>
    /\ searches = 0
    /\ search_call = <<>>
    /\ filter_call = <<>>
    /\ service_call = <<>>
    /\ InitViews
    /\ InitFiles

\* what no direct call of a parser changes. The parsers keep no state, and a
\* behaviour holds one call.
NotParsed ==
    <<store, clean_chars, row_num, count, errors, parsed, found, importers, SearchLog,
      searches, search_call, filter_call, service_call, session, view_call, file_vars>>

\* a call of parse_isbn
ParseIsbn ==
    /\ parse_call = <<>>
    /\ \E value \in IsbnInputs :
         parse_call' = <<[op |-> "parse_isbn", value |-> value, isbn |-> parse_isbn(value)]>>
    /\ UNCHANGED NotParsed

\* a call of split_semicolon_field
SplitSemicolonField ==
    /\ parse_call = <<>>
    /\ \E value \in SplitInputs :
         parse_call' = <<[op |-> "split_semicolon_field", value |-> value,
                          parts |-> split_semicolon_field(value)]>>
    /\ UNCHANGED NotParsed

\* a call of clean_special_characters
CleanSpecialCharacters ==
    /\ parse_call = <<>>
    /\ \E text \in CleanInputs :
         parse_call' = <<[op |-> "clean_special_characters", text |-> text,
                          cleaned |-> clean_special_characters(text)]>>
    /\ UNCHANGED NotParsed

\* a call of get_clean_title on a Comic whose title is title
GetCleanTitle ==
    /\ parse_call = <<>>
    /\ \E title \in CleanInputs :
         parse_call' = <<[op |-> "get_clean_title", title |-> title,
                          shown |-> get_clean_title(title)]>>
    /\ UNCHANGED NotParsed

\* a call of parse_row_to_record
ParseRowToRecord ==
    /\ parse_call = <<>>
    /\ \E row \in AliasRows :
         parse_call' = <<[op |-> "parse_row_to_record", row |-> row,
                          rec |-> parse_row_to_record(row)]>>
    /\ UNCHANGED NotParsed

NextParse ==
    \/ ParseIsbn
    \/ SplitSemicolonField
    \/ CleanSpecialCharacters
    \/ GetCleanTitle
    \/ ParseRowToRecord

SpecParse == InitParse /\ [][NextParse]_vars

----------------------------------------------------------------------------
(* split_semicolon_field on its own, or an import that calls it row by row *)

\* a direct call of split_semicolon_field, where no import runs
SplitOnly ==
    /\ row_num = 0
    /\ SplitSemicolonField

\* a row of the import, where the parser was not called directly
ImportOnly ==
    /\ parse_call = <<>>
    /\ ImportRow

NextIngest == SplitOnly \/ ImportOnly

SpecIngest == Init /\ [][NextIngest]_vars

-----------------------------------------------------------------------------
(* handle over CSV_FILES: file by file, each row by row *)

\* the files of CSV_FILES, by their place in the list
CSV_FILES == <<"names.csv", "titles.csv", "records.csv">>

\* the rows the files hold: two Records and a row without an id
FileRows ==
    {Row2("BL record ID", <<"1">>, "Title", <<"T">>),
     Row2("BL record ID", <<"0", "2">>, "Name", <<"A">>),
     Row2("BL record ID", <<" ">>, "Title", <<"T">>)}

\* a line of the summary handle writes for a file, or for the whole run; count
\* and errors are 0 in a line that prints none
Line(file, outcome, n, e) == [file |-> file, outcome |-> outcome, count |-> n, errors |-> e]

\* what handle leaves alone
NotHandled ==
    <<clean_chars, importers, SearchLog, searches, search_call, filter_call, service_call,
      view_vars>>

\* for fname in CSV_FILES: a missing file is noted and skipped, another is opened
NextFile ==
    /\ fh = "closed"
    /\ fname < Len(CSV_FILES)
    /\ fname' = fname + 1
    /\ \/ /\ summary' = Append(summary, Line(CSV_FILES[fname'], "File not found", 0, 0))
          /\ UNCHANGED <<fh, row_num, count, errors>>
       \/ /\ fh' = "open"
          /\ row_num' = 0
          /\ count' = 0
          /\ errors' = 0
          /\ UNCHANGED summary
    /\ UNCHANGED <<store, parsed, found, total_imported, total_errors>>
    /\ UNCHANGED NotHandled

\* the reader hands over a row, and the body of the loop runs on it; the save
\* may raise
FileRow ==
    /\ fh = "open"
    /\ row_num < MaxRows
    /\ \E r \in FileRows, db_raises \in BOOLEAN : ImportOf(r, db_raises)
    /\ UNCHANGED file_vars
    /\ UNCHANGED NotHandled

\* the reader raises csv.Error on the next row (a field longer than the field
\* limit): the for statement is outside the try of the rows, so the except of
\* the file catches it
ReaderError ==
    /\ fh = "open"
    /\ fh' = "closed"
    /\ summary' = Append(summary, Line(CSV_FILES[fname], "Failed to process", 0, 0))
    /\ UNCHANGED <<store, row_num, count, errors, parsed, found, fname, total_imported,
                   total_errors>>
    /\ UNCHANGED NotHandled

\* the reader is exhausted: the counts of the file are added to the totals and written
EndOfFile ==
    /\ fh = "open"
    /\ fh' = "closed"
    /\ total_imported' = total_imported + count
    /\ total_errors' = total_errors + errors
    /\ summary' = Append(summary, Line(CSV_FILES[fname], "Imported", count, errors))
    /\ UNCHANGED <<store, row_num, count, errors, parsed, found, fname>>
    /\ UNCHANGED NotHandled

\* the run is over
Completed == summary # <<>> /\ summary[Len(summary)].outcome = "IMPORT COMPLETE"

\* the final summary, after the last file
FinalSummary ==
    /\ fh = "closed"
    /\ fname = Len(CSV_FILES)
    /\ ~Completed
    /\ summary' = Append(summary, Line("", "IMPORT COMPLETE", total_imported, total_errors))
    /\ UNCHANGED <<store, row_num, count, errors, parsed, found, fname, fh, total_imported,
                   total_errors>>
    /\ UNCHANGED NotHandled

NextHandle ==
    \/ NextFile
    \/ FileRow
    \/ ReaderError
    \/ EndOfFile
    \/ FinalSummary

SpecHandle == Init /\ [][NextHandle]_vars

-----------------------------------------------------------------------------
(* The views and the session they keep *)

\* session.get(key, default)
SessionGet(s, key, default) == IF key \in DOMAIN s THEN s[key] ELSE default

\* session[key] = value
SessionSet(s, key, value) == [k \in DOMAIN s \cup {key} |-> IF k = key THEN value ELSE s[k]]

\* session.pop(key, None)
SessionPop(s, key) == [k \in DOMAIN s \ {key} |-> s[k]]

\* add_to_search_list(session, comic_id)
add_to_search_list(s, comic_id) ==
    LET search_list == SessionGet(s, "search_list", <<>>)
    IN SessionSet(s, "search_list",
                  IF comic_id \notin ToSet(search_list) THEN Append(search_list, comic_id)
                  ELSE search_list)

\* clear_search_list(session)
clear_search_list(s) == SessionSet(s, "search_list", <<>>)

\* list.remove(x): the first occurrence of x is taken out
ListRemove(l, x) ==
    LET i == CHOOSE k \in 1..Len(l) : l[k] = x /\ \A j \in 1..(k - 1) : l[j] # x
    IN SubSeq(l, 1, i - 1) \o SubSeq(l, i + 1, Len(l))

\* [c.bl_record_id for c in results]
IdsOf(table, results) == [i \in 1..Len(results) |-> table[results[i]].bl_record_id]

\* the bl_id a form posts: empty, or the id of a Record
PostedIds == {<<>>, <<"1">>, <<"2">>}

\* what is left alone by a view that touches the session only
NotSession ==
    <<store, clean_chars, row_num, count, errors, parsed, found, importers, SearchLog,
      searches, search_call, filter_call, service_call, parse_call, file_vars>>

\* what is left alone by a view that searches
NotSearched ==
    <<store, clean_chars, row_num, count, errors, parsed, found, importers,
      filter_call, service_call, parse_call, file_vars>>

\* the save_to_search_list view
SaveToSearchList ==
    /\ \E bl_id \in PostedIds :
         /\ session' = IF Truthy(bl_id) THEN add_to_search_list(session, bl_id) ELSE session
         /\ view_call' = <<[view |-> "save_to_search_list", bl_id |-> bl_id]>>
    /\ UNCHANGED NotSession

\* the remove_from_search_list view
RemoveFromSearchList ==
    /\ \E bl_id \in PostedIds :
         LET search_list == SessionGet(session, "search_list", <<>>)
         IN /\ session' = IF bl_id \in ToSet(search_list)
                           THEN SessionSet(session, "search_list", ListRemove(search_list, bl_id))
                           ELSE session
            /\ view_call' = <<[view |-> "remove_from_search_list", bl_id |-> bl_id]>>
    /\ UNCHANGED NotSession

\* a faulty variant: the view clears the list and keeps the last results
ClearedSession_KeepResults(s) == clear_search_list(s)

\* the session the clear_search_results view leaves
ClearedSession(s) == SessionPop(clear_search_list(s), "last_search_results")

\* the clear_search_results view
ClearSearchResults ==
    /\ session' = ClearedSession(session)
    /\ view_call' = <<[view |-> "clear_search_results"]>>
    /\ UNCHANGED NotSession

\* the query strings of the search view: q, genre (absent), languages and order
SearchQueries ==
    [q : {<<>>, <<" ", "d">>}, genre : {None},
     languages : {<<>>, << <<"f">> >>}, order : {"asc", "desc"}]

\* the search view: search, sort, and keep the ids of the results in the session
SearchView ==
    /\ \E query \in SearchQueries :
         /\ SearchCall([k \in {Keyword(n) : n \in FilterNames} |->
                          CASE k = "title_query" -> PStr(strip(query.q))
                            [] k = "genre" ->
                                 IF query.genre = None THEN PNone ELSE PStr(query.genre)
                            [] k = "languages" -> PList(query.languages)
                            [] OTHER -> PNone])
         /\ IF search_call'[1].raised
            THEN /\ session' = session
                 /\ view_call' = <<[view |-> "search", query |-> query, raised |-> TRUE]>>
            ELSE LET results == sort_results(store, search_call'[1].results, query.order)
                 IN /\ session' = SessionSet(session, "last_search_results",
                                             IdsOf(store, results))
                    /\ view_call' = <<[view |-> "search", query |-> query,
                                       results |-> results]>>
    /\ UNCHANGED NotSearched

\* the forms the advanced search is posted: each field empty, blank or set
PostedForms ==
    [author : {<<>>, <<" ", "M", " ">>}, year : {<<>>}, genre : {<<>>},
     edition : {<<>>, <<" ">>}, name_type : {<<>>},
     languages : {<<>>, <<"\t">>, <<",">>, <<" ", ",", "f">>}]

\* a faulty variant: the value is not stripped before it is tested
StripOrNone_Unstripped(value) == IF value = <<>> THEN PNone ELSE PStr(value)

\* value.strip() or None, as an argument of search
StripOrNone(value) == IF strip(value) = <<>> THEN PNone ELSE PStr(strip(value))

\* the languages of the form: None, or its comma-separated tokens
FormLanguages(value) ==
    IF strip(value) = <<>> THEN PNone
    ELSE PList(Map(strip, SelectSeq(split(value, ","), LAMBDA l : strip(l) # <<>>)))

\* cleaned_data of the advanced search
CleanedData(raw_data) ==
    [f \in DOMAIN raw_data |->
        IF f = "languages" THEN FormLanguages(raw_data[f]) ELSE StripOrNone(raw_data[f])]

\* any(v for v in cleaned_data.values())
HasCriteria(cleaned_data) == \E f \in DOMAIN cleaned_data : Present(cleaned_data[f])

NoCriterionMessage ==
    <<"P", "l", "e", "a", "s", "e", " ", "p", "r", "o", "v", "i", "d", "e", " ", "a",
    "t", " ", "l", "e", "a", "s", "t", " ", "o", "n", "e", " ", "s", "e", "a", "r", "c",
    "h", " ", "c", "r", "i", "t", "e", "r", "i", "o", "n", ".">>

SearchErrorMessage == <<"S", "e", "a", "r", "c", "h", " ", "e", "r", "r", "o", "r", ":", " ">>

\* the advanced_search view: a GET shows the form, a POST without criteria
\* answers with a message, a POST with criteria searches
AdvancedSearch ==
    \/ /\ view_call' = <<[view |-> "advanced_search", method |-> "GET"]>>
       /\ UNCHANGED <<session, SearchLog, searches, search_call>>
       /\ UNCHANGED NotSearched
    \/ /\ \E raw_data \in PostedForms :
            LET cleaned_data == CleanedData(raw_data)
            IN IF ~HasCriteria(cleaned_data)
               THEN /\ view_call' = <<[view |-> "advanced_search", method |-> "POST",
                                       raw_data |-> raw_data, searched |-> FALSE,
                                       results |-> <<>>,
                                       error_message |-> NoCriterionMessage]>>
                    /\ UNCHANGED <<session, SearchLog, searches, search_call>>
               ELSE /\ SearchCall([k \in {Keyword(n) : n \in FilterNames} |->
                                     IF k \in DOMAIN cleaned_data THEN cleaned_data[k]
                                     ELSE PNone])
                    /\ IF search_call'[1].raised
                       THEN /\ session' = session
                            /\ view_call' = <<[view |-> "advanced_search", method |-> "POST",
                                               raw_data |-> raw_data, searched |-> TRUE,
                                               results |-> <<>>,
                                               error_message |-> SearchErrorMessage]>>
                       ELSE /\ session' = SessionSet(session, "last_search_results",
                                                     IdsOf(store, search_call'[1].results))
                            /\ view_call' = <<[view |-> "advanced_search", method |-> "POST",
                                               raw_data |-> raw_data, searched |-> TRUE,
                                               results |-> search_call'[1].results,
                                               error_message |-> None]>>
       /\ UNCHANGED NotSearched

NextViews ==
    \/ SaveToSearchList
    \/ RemoveFromSearchList
    \/ ClearSearchResults
    \/ SearchView
    \/ AdvancedSearch

SpecViews == InitSearch /\ [][NextViews]_vars

----------------------------------------------------------------------------
(* Claims about the upsert *)

MultiFields == {"variant_titles", "authors", "publication_years", "genres", "languages"}

\* the last row read was handed to upsert_from_parsed
Upserted == parsed # <<>> /\ Truthy(parsed[1].bl_record_id)

\* the row of the table the last upsert saved
Cur == IF found = <<>> THEN store[Len(store)] ELSE store[found[1].pk]

\* C1: when two imports upsert the same external_id concurrently, the stored
\* Record afterwards holds the multi-valued values of both imports, whatever
\* the interleaving, also when both try to create the record.
C1_BothImportsReflected ==
    (\A p \in Importers : importers[p].pc = "idle" /\ importers[p].parsed # <<>>)
    => \A p \in Importers :
          LET q == importers[p].parsed[1]
          IN Truthy(q.bl_record_id) =>
                \E i \in 1..Len(store) :
                    /\ store[i].bl_record_id = q.bl_record_id
                    /\ \A f \in MultiFields : ToSet(q[f]) \subseteq ToSet(store[i][f])

\* C2: the table never holds two Records with the same external_id, under any
\* interleaving of upserts.
C2_OneRecordPerId ==
    \A i, j \in 1..Len(store) : store[i].bl_record_id = store[j].bl_record_id => i = j

\* C2: both imports upserted the same id, one of them onto the record the other made
C2_Witness ==
    /\ Len(store) = 1
    /\ \A p \in Importers : importers[p].pc = "idle" /\ importers[p].parsed # <<>>
                            /\ importers[p].parsed[1].bl_record_id = store[1].bl_record_id
    /\ \E p \in Importers : importers[p].found # <<>> /\ importers[p].count = 1

\* C3: an upsert of an existing id sets every multi-valued field to the set
\* union of the stored and the parsed values, so no value is ever lost.
C3_UnionOnUpdate ==
    (Upserted /\ found # <<>>)
    => \A f \in MultiFields :
          ToSet(Cur[f]) = ToSet(found[1][f]) \cup ToSet(parsed[1][f])

\* C3: authors [A], then authors [B], gives {A, B}
C3_Witness ==
    /\ Upserted /\ found # <<>>
    /\ found[1].authors = << <<"A">> >>
    /\ ToSet(parsed[1].authors) = { <<"B">> }
    /\ ToSet(Cur.authors) = { <<"A">>, <<"B">> }

\* C4: an upsert sets identifiers (isbn) to the parsed list as it is, never
\* unioned with the stored list.
C4_IsbnOverwritten == Upserted => Cur.isbn = parsed[1].isbn

\* C4: identifiers [X], then ["missing"], leaves ["missing"]
C4_Witness ==
    /\ Upserted /\ found # <<>>
    /\ found[1].isbn = << <<"X">> >>
    /\ parsed[1].isbn = <<Missing>>
    /\ Cur.isbn = <<Missing>>

FieldSets(obj) == [f \in MultiFields |-> ToSet(obj[f])]

\* C5: importing the same row again right after it was upserted leaves the
\* Record's multi-valued fields equal, as sets, to those after the first time.
C5_Idempotent ==
    [][(row_num' = row_num + 1 /\ Upserted /\ parsed' = parsed)
        => FieldSets(Cur') = FieldSets(Cur)]_vars

\* C5: the same row twice, the first time creating the record, from a raw
\* field that repeats a value
C5_Witness ==
    /\ row_num = 2 /\ count = 2 /\ Len(store) = 1
    /\ Upserted /\ found # <<>>
    /\ [found[1] EXCEPT !.pk = 0] \in MergeOutcomes(NewComic(parsed[1].bl_record_id), parsed[1])
    /\ parsed[1].authors = << <<"B">>, <<"B">> >>

\* C6: no stored Record's identifiers hold "missing" together with another value.
C6_SentinelExclusive ==
    \A i \in 1..Len(store) :
        ~(Missing \in ToSet(store[i].isbn) /\ \E x \in ToSet(store[i].isbn) : x # Missing)

\* C7: an upsert of an existing Record takes the parsed title when it is not
\* empty and keeps the stored title when it is.
C7_TitleKeptWhenEmpty ==
    (Upserted /\ found # <<>>)
    => Cur.title = IF parsed[1].title # <<>> THEN parsed[1].title ELSE found[1].title

\* C7: a stored title survives an upsert whose parsed title is empty
C7_Witness ==
    /\ Upserted /\ found # <<>>
    /\ found[1].title = <<"T">>
    /\ parsed[1].title = <<>>
    /\ Cur.title = <<"T">>

----------------------------------------------------------------------------
(* Claims about the filters and search *)

\* the cleaned value search hands to filter name in the last call
Cleaned(name) == CleanParam(search_call[1].args[Keyword(name)])

\* the filters whose cleaned parameter is present in the last call
Supplied == {n \in FilterNames : Present(Cleaned(n))}

Position(name) == CHOOSE i \in 1..Len(FilterOrder) : FilterOrder[i] = name

\* the Comic satisfies filter name with value v
Passes(name, c, v) == NoOp(name, v) \/ Keeps(name, c, Needles(name, v))

\* the Comics of the table that satisfy every filter of names, each with its cleaned value
Matching(names) ==
    {pk \in 1..Len(store) : \A n \in names : Passes(n, store[pk], Cleaned(n))}

\* C8: search applies the filters of the present parameters in the order genre,
\* author, year, title, languages, edition, name_type, and once a filter leaves
\* nothing, no later filter is applied.
C8_OrderAndShortCircuit ==
    search_call # <<>> =>
        LET a == search_call[1].applied_filters
            names == {a[i].name : i \in 1..Len(a)}
        IN /\ \A i \in 1..Len(a) : a[i].name \in Supplied /\ a[i].value = Cleaned(a[i].name)
           /\ \A i, j \in 1..Len(a) : i < j => Position(a[i].name) < Position(a[j].name)
           /\ \A i \in 1..(Len(a) - 1) : Matching({a[h].name : h \in 1..i}) # {}
           /\ \A n \in Supplied \ names :
                /\ a # <<>>
                /\ Position(n) > Position(a[Len(a)].name)
                /\ Matching(names) = {}

\* C8: the second of three supplied filters leaves nothing, and the third, which
\* alone would match a Comic, is not applied
C8_Witness ==
    /\ search_call # <<>>
    /\ Cardinality(Supplied) = 3
    /\ Len(search_call[1].applied_filters) = 2
    /\ \E n \in Supplied :
          /\ \A i \in 1..2 : search_call[1].applied_filters[i].name # n
          /\ Matching({n}) # {}

\* C9: a filter given an empty, absent or whitespace-only value returns the
\* queryset it was given.
C9_BlankIsNoOp ==
    filter_call # <<>> =>
        LET f == filter_call[1]
        IN (\/ f.value.kind = "none"
            \/ f.value.kind = "str" /\ strip(f.value.items[1]) = <<>>
            \/ f.value.kind = "list" /\ f.value.items = <<>>)
           => f.result = f.queryset

\* C9: a whitespace-only value on a queryset of two Comics
C9_Witness ==
    /\ filter_call # <<>>
    /\ filter_call[1].value = PStr(<<" ", " ">>)
    /\ Cardinality(filter_call[1].queryset) = 2
    /\ filter_call[1].result = filter_call[1].queryset

\* C10: search returns exactly the Comics that satisfy every supplied filter,
\* each once (the table holding no more than the 10,000 a search returns).
C10_Conjunction ==
    search_call # <<>> =>
        (Cardinality(Matching(Supplied)) <= Limit =>
            /\ ToSet(search_call[1].results) = Matching(Supplied)
            /\ Len(search_call[1].results) = Cardinality(Matching(Supplied)))

\* C10: author, year and genre together select the one Comic of three that matches all
C10_Witness ==
    /\ search_call # <<>>
    /\ Len(store) = 3
    /\ Supplied = {"author", "year", "genre"}
    /\ \A n \in Supplied : Cardinality(Matching({n})) > 1 \/ n = "genre"
    /\ search_call[1].results = <<3>>

\* the text t occurs, ignoring case, in some element of the list l
InSome(t, l) == \E i \in 1..Len(l) : icontains(l[i], t)

\* C11: the title filter keeps a Record exactly when the query is, ignoring
\* case, a substring of its title or of at least one of its variant titles.
C11_TitleOrVariant ==
    (/\ filter_call # <<>>
     /\ filter_call[1].name = "title"
     /\ filter_call[1].value.kind = "str"
     /\ strip(filter_call[1].value.items[1]) # <<>>)
    => LET f == filter_call[1]
           q == strip(f.value.items[1])
       IN f.result = {pk \in f.queryset :
                        icontains(store[pk].title, q) \/ InSome(q, store[pk].variant_titles)}

\* the language tokens of a value: the parts of a str between commas, or the
\* items of a list, each trimmed, blank ones dropped
TrimmedTokens(v) ==
    LET parts == IF v.kind = "str" THEN split(v.items[1], ",") ELSE v.items
        trimmed == [i \in 1..Len(parts) |-> strip(parts[i])]
    IN SelectSeq(trimmed, NonEmpty)

\* C12: the language filter, given a comma-separated str or a list, keeps a
\* Record exactly when one of its languages contains, ignoring case, one of the
\* trimmed non-blank tokens; with no such token it returns the queryset.
C12_AnyLanguageToken ==
    (/\ filter_call # <<>>
     /\ filter_call[1].name = "languages"
     /\ filter_call[1].value.kind # "none")
    => LET f == filter_call[1]
           tokens == TrimmedTokens(f.value)
       IN f.result =
            IF tokens = <<>> THEN f.queryset
            ELSE {pk \in f.queryset :
                    \E j \in 1..Len(tokens) : InSome(tokens[j], store[pk].languages)}

\* a sorts before b when letter case is ignored
LessIgnoringCase(a, b) == TextLess([i \in 1..Len(a) |-> Fold(a[i])], [i \in 1..Len(b) |-> Fold(b[i])])

\* C13: the sequence search returns is ordered by title ascending, ignoring case.
C13_OrderedIgnoringCase ==
    search_call # <<>> =>
        LET r == search_call[1].results
        IN \A i, j \in 1..Len(r) :
              i < j => ~LessIgnoringCase(store[r[j]].title, store[r[i]].title)

\* C20: a row whose parsed external_id is empty leaves the table unchanged, is
\* counted as an error and not as imported, and the import goes on.
C20_EmptyIdCountedAsError ==
    [][(row_num' = row_num + 1 /\ parsed' # <<>> /\ ~Truthy(parsed'[1].bl_record_id))
        => (store' = store /\ count' = count /\ errors' = errors + 1)]_vars

----------------------------------------------------------------------------
(* Claims about the log and the reports *)

\* the step is a call of search
SearchStep == searches' = searches + 1

\* the step appended one entry that records what the call returned, and left
\* the entries before it as they were
AppendedOne ==
    LET r == search_call'[1].results
    IN /\ Len(SearchLog') = Len(SearchLog) + 1
       /\ SubSeq(SearchLog', 1, Len(SearchLog)) = SearchLog
       /\ SearchLog'[Len(SearchLog')].result_ids = [i \in 1..Len(r) |-> store[r[i]].bl_record_id]
       /\ SearchLog'[Len(SearchLog')].num_results = Len(r)

\* C15 (as claimed): every executed search appends exactly one entry whose
\* result_ids are the ids of the returned records in returned order and whose
\* num_results is their number, and leaves the existing entries as they were.
C15_OneEntryPerSearch == [][SearchStep => AppendedOne]_vars

\* C15 (amended): a search whose log write succeeds appends exactly that one
\* entry; a search whose log write fails appends none; either way the existing
\* entries are left as they were.
C15_OneEntryWhenWritten ==
    [][SearchStep => IF search_call'[1].log_raised THEN SearchLog' = SearchLog
                     ELSE AppendedOne]_vars

\* C15: a search that returned two records was logged after an older entry
C15_Witness ==
    /\ search_call # <<>>
    /\ search_call[1].results = <<2, 3>>
    /\ ~search_call[1].log_raised
    /\ SearchLog = <<OldEntry,
                     [query_text |-> QueryText(search_call[1].applied_filters),
                      result_ids |-> << <<"0", "2">>, <<"3">> >>, num_results |-> 2]>>

\* C16: when the log write fails, search raises nothing, returns the records
\* that satisfy its filters in the order of the query, and writes nothing more.
C16_LogFailureSwallowed ==
    [][(SearchStep /\ search_call'[1].log_raised)
        => /\ ~search_call'[1].raised
           /\ SearchLog' = SearchLog
           /\ \E o \in OrderByTitle(store, Matching(Supplied)') :
                 search_call'[1].results = Truncate(o)]_vars

\* C16: a search that found two records while its log write failed
C16_Witness ==
    /\ search_call # <<>>
    /\ search_call[1].log_raised
    /\ search_call[1].results = <<2, 3>>
    /\ SearchLog = <<OldEntry>>

\* C19: top_results returns, for the `limit` most frequent ids of the log in
\* descending order of their count, the Record and the count; an id without a
\* Record is skipped, so every returned pair holds a Record.
C19_TopResultsResolved ==
    [][(service_call' # service_call /\ service_call'[1].op = "top_results")
        => LET r == service_call'[1].result
               ids == MetIds(SearchLog)
           IN /\ Len(r) <= service_call'[1].limit
              /\ \A i \in 1..Len(r) :
                    /\ r[i].comic # <<>>
                    /\ r[i].cnt = CountOf(r[i].comic[1].bl_record_id, ids)
              /\ \A i, j \in 1..Len(r) : i < j => r[i].cnt >= r[j].cnt
              /\ \A i, j \in 1..Len(r) : r[i].comic = r[j].comic => i = j
              /\ \A rid \in ToSet(ids) :
                    (Lookup(store, rid) # <<>> /\ \A i \in 1..Len(r) : r[i].comic # Lookup(store, rid))
                    => /\ Len(r) = service_call'[1].limit
                       /\ \A i \in 1..Len(r) : r[i].cnt >= CountOf(rid, ids)]_vars

----------------------------------------------------------------------------
(* Claims about sort_results and group *)

\* where the Comic pk stands in the list l
PlaceIn(l, pk) == CHOOSE i \in 1..Len(l) : l[i] = pk

\* C17: sort_results orders by title ignoring case, ascending for asc and
\* descending for desc, and Comics whose titles are equal ignoring case keep
\* the order they had in the input, in both directions.
C17_StableSortByTitle ==
    (/\ service_call # <<>>
     /\ service_call[1].op = "sort_results"
     /\ service_call[1].order \in {"asc", "desc"})
    => LET in == service_call[1].results
           r == service_call[1].result
           T(pk) == store[pk].title
       IN /\ Len(r) = Len(in) /\ ToSet(r) = ToSet(in)
          /\ \A i, j \in 1..Len(r) :
                i < j =>
                  /\ service_call[1].order = "asc" => ~LessIgnoringCase(T(r[j]), T(r[i]))
                  /\ service_call[1].order = "desc" => ~LessIgnoringCase(T(r[i]), T(r[j]))
                  /\ (~LessIgnoringCase(T(r[i]), T(r[j])) /\ ~LessIgnoringCase(T(r[j]), T(r[i])))
                        => PlaceIn(in, r[i]) < PlaceIn(in, r[j])

\* C17: "a", "B", "b" sorted descending gives "B", "b", "a"
C17_Witness ==
    /\ service_call # <<>>
    /\ service_call[1].op = "sort_results"
    /\ service_call[1].order = "desc"
    /\ service_call[1].results = <<3, 2, 1>>
    /\ service_call[1].result = <<2, 1, 3>>

\* the values of the grouped field a Comic holds
FieldValues(c, by) == ToSet(IF by = "author" THEN c.authors ELSE c.publication_years)

\* C18: group by author or year maps each distinct value to the list of the
\* records that hold it, each such record once; a record with an empty field is
\* in the "Unknown" group only; any other `by` gives an empty mapping.
C18_GroupOncePerValue ==
    (service_call # <<>> /\ service_call[1].op = "group")
    => LET in == service_call[1].results
           by == service_call[1].by
           g == service_call[1].groups
           Holds(pk, k) == IF FieldValues(store[pk], by) = {} THEN k = Unknown
                           ELSE k \in FieldValues(store[pk], by)
       IN IF by \notin {"author", "year"} THEN g = <<>>
          ELSE /\ \A i, j \in 1..Len(g) : g[i].key = g[j].key => i = j
               /\ \A i \in 1..Len(g) :
                     /\ g[i].members # <<>>
                     /\ ToSet(g[i].members) = {pk \in ToSet(in) : Holds(pk, g[i].key)}
                     /\ \A a, b \in 1..Len(g[i].members) :
                           g[i].members[a] = g[i].members[b] => a = b
               /\ \A pk \in ToSet(in) : \E i \in 1..Len(g) : Holds(pk, g[i].key)

(* Claims about the limit *)

\* C14: search never returns more than 10,000 records, whatever the size of the
\* table and the arguments, the unfiltered search included.
C14_AtMostTenThousand ==
    search_call # <<>> => Len(search_call[1].results) <= 10000

\* C14: the unfiltered search on a table of more than 10,000 Comics returned 10,000
C14_Witness ==
    /\ Len(store) > 10000
    /\ search_call # <<>>
    /\ search_call[1].applied_filters = <<>>
    /\ Len(search_call[1].results) = 10000

----------------------------------------------------------------------------
(* Claims about the parsers and the cleaners *)

\* the places where s is cut at sep, with its two ends
Cuts(s, sep) == {0, Len(s) + 1} \cup {i \in 1..Len(s) : s[i] = sep}

\* the n-th of them
Cut(s, sep, n) ==
    CHOOSE c \in Cuts(s, sep) : Cardinality({d \in Cuts(s, sep) : d < c}) = n - 1

\* the pieces of s between two neighbouring cuts, in the order of s
Pieces(s, sep) ==
    [n \in 1..(Cardinality(Cuts(s, sep)) - 1) |->
        SubSeq(s, Cut(s, sep, n) + 1, Cut(s, sep, n + 1) - 1)]

\* s without its whitespace
Unspaced(s) == SelectSeq(s, LAMBDA c : ~IsSpace(c))

\* s without the whitespace at its two ends
Trimmed(s) ==
    LET inked == {i \in 1..Len(s) : ~IsSpace(s[i])}
    IN IF inked = {} THEN <<>>
       ELSE SubSeq(s, CHOOSE i \in inked : \A j \in inked : i <= j,
                      CHOOSE i \in inked : \A j \in inked : j <= i)

\* C23: parse_isbn removes the whitespace, splits on ",", drops the empty parts
\* and returns the others in the order of the input, or ["missing"] when nothing
\* remains (absent and blank input included); the result is never empty.
C23_IsbnParts ==
    (parse_call # <<>> /\ parse_call[1].op = "parse_isbn")
    => LET value == parse_call[1].value
           parts == IF value = None THEN <<>>
                    ELSE SelectSeq(Pieces(Unspaced(value), ","), NonEmpty)
       IN /\ parse_call[1].isbn # <<>>
          /\ parse_call[1].isbn = IF parts = <<>> THEN <<Missing>> ELSE parts

\* C24: cleaning is idempotent: cleaning a cleaned text gives the same text, for
\* the cleaner of the import and for the cleaner of the displayed title.
C24_CleanIdempotent ==
    /\ (parse_call # <<>> /\ parse_call[1].op = "clean_special_characters")
          => clean_special_characters(parse_call[1].cleaned) = parse_call[1].cleaned
    /\ (parse_call # <<>> /\ parse_call[1].op = "get_clean_title")
          => get_clean_title(parse_call[1].shown) = parse_call[1].shown

\* C24: "& &" was cleaned to "and and"
C24_Witness ==
    /\ parse_call # <<>>
    /\ parse_call[1].op = "clean_special_characters"
    /\ parse_call[1].text = <<"&", " ", "&">>
    /\ parse_call[1].cleaned = <<"a", "n", "d", " ", "a", "n", "d">>

\* the characters the third rule of clean leaves in place: alphanumeric,
\* whitespace, or one of - . , ! ? : ; ( )
Allowed(c) ==
    \/ c \in Letters \cup Digits \cup {"-", ".", ",", "!", "?", ":", ";", "(", ")"}
    \/ IsSpace(c)

\* s with every run of whitespace turned into one space
Squeezed(s) ==
    LET first == SelectSeq([i \in 1..Len(s) |-> [c |-> s[i], at |-> i]],
                           LAMBDA x : ~(IsSpace(x.c) /\ x.at > 1 /\ IsSpace(s[x.at - 1])))
    IN [i \in 1..Len(first) |-> IF IsSpace(first[i].c) THEN " " ELSE first[i].c]

\* the text the rules of clean give, applied in their order
RulesOfClean(text) ==
    IF ~Truthy(text) THEN text
    ELSE Trimmed(Squeezed(SelectSeq(Concat(Map(Replacement, text)), Allowed)))

\* C30: clean replaces the fixed symbols by words, then deletes every other
\* character that is not alphanumeric, whitespace or one of - . , ! ? : ; ( ),
\* so that its neighbours become adjacent, then collapses runs of whitespace
\* and trims the ends; empty and absent input is returned unchanged.
C30_CleanDeletes ==
    /\ (parse_call # <<>> /\ parse_call[1].op = "clean_special_characters")
          => parse_call[1].cleaned = RulesOfClean(parse_call[1].text)
    /\ (parse_call # <<>> /\ parse_call[1].op = "get_clean_title")
          => parse_call[1].shown = RulesOfClean(parse_call[1].title)

\* the value under the first of the aliases that is a column of the row
RECURSIVE FirstPresent(_, _)
FirstPresent(row, aliases) ==
    IF aliases = <<>> THEN None
    ELSE IF Head(aliases) \in DOMAIN row THEN row[Head(aliases)]
    ELSE FirstPresent(row, Tail(aliases))

\* C29: parse_row_to_record takes, for each field, the value of the first alias
\* that is present in the row, even when that value is empty and a later alias
\* holds a value that is not.
C29_FirstPresentAlias ==
    (parse_call # <<>> /\ parse_call[1].op = "parse_row_to_record")
    => LET row == parse_call[1].row
           rec == parse_call[1].rec
       IN /\ rec.title = normalize_text(FirstPresent(row, <<"Title", "Title ">>))
          /\ rec.authors = split_semicolon_field(FirstPresent(row, <<"Name", "Name ">>))

\* C27: split_semicolon_field splits on ";", trims each part and drops the empty
\* parts, and gives the empty list for absent and for blank input; and no
\* multi-valued field of a stored Record holds an empty or whitespace-only text.
C27_NoBlankValue ==
    /\ (parse_call # <<>> /\ parse_call[1].op = "split_semicolon_field")
          => LET value == parse_call[1].value
             IN parse_call[1].parts =
                   IF value = None THEN <<>>
                   ELSE SelectSeq(Map(Trimmed, Pieces(value, ";")), NonEmpty)
    /\ \A i \in 1..Len(store) : \A f \in MultiFields :
          \A k \in 1..Len(store[i][f]) : Trimmed(store[i][f][k]) # <<>>

\* C27: a row whose Name column is "B ;;B" was imported
C27_Witness ==
    /\ row_num > 0
    /\ \E i \in 1..Len(store) : store[i].authors = << <<"B">>, <<"B">> >>

\* C26: after any sequence of upserts, the first creation of a Record from a row
\* whose raw field repeats a value included, no multi-valued field of a stored
\* Record holds the same text twice.
C26_NoDuplicateValue ==
    \A i \in 1..Len(store) : \A f \in MultiFields :
        \A a, b \in 1..Len(store[i][f]) : store[i][f][a] = store[i][f][b] => a = b

-----------------------------------------------------------------------------
(* Claims about the logged query description *)

\* the text of one applied filter: its field, "=", and its value as str gives it
PairText(a) == ParamText(a.name) \o <<"=">> \o ValueText(a.value)

\* the pairs of applied, each after the first preceded by " AND "
Described(applied) ==
    Concat([i \in 1..Len(applied) |->
               (IF i = 1 THEN <<>> ELSE <<" ", "A", "N", "D", " ">>) \o PairText(applied[i])])

\* C28: the query description logged by search is the field=value pairs of the
\* filters that were applied, in application order, joined with " AND "; when no
\* filter was applied it is the sentinel "empty_search".
C28_QueryDescription ==
    (search_call # <<>> /\ ~search_call[1].log_raised) =>
        LET applied == search_call[1].applied_filters
            logged == SearchLog[Len(SearchLog)].query_text
        IN IF applied = <<>>
           THEN logged = <<"e", "m", "p", "t", "y", "_", "s", "e", "a", "r", "c", "h">>
           ELSE logged = Described(applied)

\* C28: a search that applied the genre and then the author filter was logged
C28_Witness ==
    /\ search_call # <<>>
    /\ ~search_call[1].log_raised
    /\ Len(search_call[1].applied_filters) = 2
    /\ SearchLog[Len(SearchLog)].query_text =
          <<"g", "e", "n", "r", "e", "=", "s", "f", " ", "A", "N", "D", " ",
            "a", "u", "t", "h", "o", "r", "=", "M">>

-----------------------------------------------------------------------------
(* Claims about the views *)

\* the last view called was view
Viewed(view) == view_call # <<>> /\ view_call[1].view = view

BlankPost ==
    /\ view_call' # view_call
    /\ view_call' # <<>>
    /\ view_call'[1].view = "advanced_search"
    /\ view_call'[1].method = "POST"
    /\ \A f \in DOMAIN view_call'[1].raw_data : \A i \in 1..Len(view_call'[1].raw_data[f]) :
          view_call'[1].raw_data[f][i] \in {" ", "\t"}

\* C22: an advanced search whose every criterion is empty or whitespace-only
\* answers with no results and the message asking for a criterion; search is not
\* called, no log entry is written and last_search_results stays as it was.
C22_BlankSearchDoesNothing ==
    [][BlankPost =>
          /\ view_call'[1].results = <<>>
          /\ view_call'[1].error_message =
               <<"P", "l", "e", "a", "s", "e", " ", "p", "r", "o", "v", "i", "d", "e", " ",
                 "a", "t", " ", "l", "e", "a", "s", "t", " ", "o", "n", "e", " ",
                 "s", "e", "a", "r", "c", "h", " ", "c", "r", "i", "t", "e", "r", "i", "o", "n", ".">>
          /\ searches' = searches
          /\ search_call' = search_call
          /\ SearchLog' = SearchLog
          /\ session' = session]_vars

\* C22: a form with whitespace-only fields was posted after a search had stored
\* its results, and was answered without a search
C22_Witness ==
    /\ Viewed("advanced_search")
    /\ view_call[1].method = "POST"
    /\ view_call[1].raw_data.edition = <<" ">>
    /\ view_call[1].raw_data.year = <<>>
    /\ view_call[1].raw_data.languages = <<"\t">>
    /\ view_call[1].raw_data.author = <<>>
    /\ view_call[1].raw_data.genre = <<>>
    /\ ~view_call[1].searched
    /\ "last_search_results" \in DOMAIN session
    /\ session["last_search_results"] # <<>>

-----------------------------------------------------------------------------
(* Claims about the run over the files *)

\* C21: a row that fails adds one to the error count and nothing to the
\* imported count and never ends its file: a file is left only when its rows are
\* exhausted, with its counts written and added to the totals, so that the
\* totals are the sums of the counts of the files.
C21_RowFailureTolerated ==
    [][/\ (fh = "open" /\ row_num' = row_num + 1) =>
            /\ fh' = "open"
            /\ <<count', errors'>> \in
                  {<<count + 1, errors>>, <<count, errors + 1>>, <<count, errors>>}
            /\ total_imported' = total_imported
            /\ total_errors' = total_errors
       /\ (fh = "open" /\ fh' = "closed") =>
            /\ summary' = Append(summary, [file |-> CSV_FILES[fname], outcome |-> "Imported",
                                           count |-> count, errors |-> errors])
            /\ total_imported' = total_imported + count
            /\ total_errors' = total_errors + errors]_vars

====
